---- MODULE Spec2Model ----
(***************************************************************************)
(* State-machine model of the weather forecast plugin (src/main.py):       *)
(* the parser parse_weather and the Plugin object with its update() poll,  *)
(* its notification scheduler, the one-shot timers it registers with the   *)
(* host event loop, and the icon cache directory.                          *)
(*                                                                         *)
(* The source's texts are not ASCII; the model writes them in ASCII:       *)
(*   the degree sign of the templates is written "degC",                   *)
(*   the fullwidth colon U+FF1A used by _split_alert_detail is the         *)
(*   character "U+FF1A", the weather descriptions and notification titles  *)
(*   are transliterated.  The renaming is one-to-one.                      *)
(*                                                                         *)
(* Python values are tagged records: None is [type |-> "None"], a str is   *)
(* [type |-> "str", ...], a dict is [type |-> "dict", value |-> f] with f  *)
(* a function from its keys.  A call that can raise returns                *)
(* [exc |-> <name of the exception or "none">, val |-> <result>].          *)
(***************************************************************************)
EXTENDS Integers, Sequences, FiniteSets, TLC

VARIABLES
    now,             \* wall clock, milliseconds since midnight of day 0
    notified_times,  \* self.notified_times
    current_date,    \* self.current_date (day number)
    weather_data,    \* self.weather_data
    cache,           \* names of the files in self.cache_dir
    timers,          \* pending QTimer.singleShot callbacks, in registration order
    input,           \* the payload parse_weather is run on (ParseSpec only)
    sent,            \* method.send_notification calls of the cycle in progress
    batch,           \* the batch of the cycle in progress, as it was registered
    raised,          \* the exception that escaped the last step, "none" if none
    calls,           \* invocations of _schedule_notifications at the current
                     \* (date, second), counted up to MaxCalls
    downloads,       \* the outcomes of the requests.get calls of the last step
    lastOp,          \* the last step taken; "schedule" is an update() that
                     \* called _schedule_notifications
    polled,          \* the kind of cw_contexts the last step was polled with,
                     \* "none" when the last step was no update()
    cleared          \* what notified_times.clear() discarded in the last step

vars == <<now, notified_times, current_date, weather_data, cache, timers, input,
          sent, batch, raised, calls, downloads, lastOp, polled, cleared>>

-----------------------------------------------------------------------------
(* Bounds of the model *)

MaxDays == 2        \* calendar days the clock runs through
MaxCalls == 2       \* the invocation count of one (date, second) saturates here
MaxArr == 4         \* longest forecast array handed to the parser

-----------------------------------------------------------------------------
(* Python values *)

NoneVal == [type |-> "None"]
PyStr(s) == [type |-> "str", value |-> s]
PyDict(f) == [type |-> "dict", value |-> f]
EmptyDict == << >>

Ok(v) == [exc |-> "none", val |-> v]
Raise(e) == [exc |-> e, val |-> NoneVal]

\* dict.get(key, default)
DictGet(d, key, default) == IF key \in DOMAIN d THEN d[key] ELSE default

Min(a, b) == IF a < b THEN a ELSE b

\* values[:3]
FirstThree(values) == SubSeq(values, 1, Min(3, Len(values)))

\* sep.join(parts)
RECURSIVE Join(_, _)
Join(sep, parts) ==
    IF Len(parts) = 0 THEN ""
    ELSE IF Len(parts) = 1 THEN parts[1]
    ELSE parts[1] \o sep \o Join(sep, Tail(parts))

-----------------------------------------------------------------------------
(* The weather-code table and parse_weather *)

WEATHER_STATUS ==
    [c \in (0..35) \cup {53, 99} |->
        CASE c = 0 -> "qing" [] c = 1 -> "duoyun" [] c = 2 -> "yin"
          [] c = 3 -> "zhenyu" [] c = 4 -> "leizhenyu"
          [] c = 5 -> "leizhenyu bing banyou bingbao" [] c = 6 -> "yujiaxue"
          [] c = 7 -> "xiaoyu" [] c = 8 -> "zhongyu" [] c = 9 -> "dayu"
          [] c = 10 -> "baoyu" [] c = 11 -> "dabaoyu" [] c = 12 -> "tedabaoyu"
          [] c = 13 -> "zhenxue" [] c = 14 -> "xiaoxue" [] c = 15 -> "zhongxue"
          [] c = 16 -> "daxue" [] c = 17 -> "baoxue" [] c = 18 -> "wu"
          [] c = 19 -> "dongyu" [] c = 20 -> "shachenbao"
          [] c = 21 -> "xiaoyu-zhongyu" [] c = 22 -> "zhongyu-dayu"
          [] c = 23 -> "dayu-baoyu" [] c = 24 -> "baoyu-dabaoyu"
          [] c = 25 -> "dabaoyu-tedabaoyu" [] c = 26 -> "xiaoxue-zhongxue"
          [] c = 27 -> "zhongxue-daxue" [] c = 28 -> "daxue-baoxue"
          [] c = 29 -> "fuchen" [] c = 30 -> "yangsha" [] c = 31 -> "qiangshachenbao"
          [] c = 32 -> "biao" [] c = 33 -> "longjuanfeng" [] c = 34 -> "ruogaochuixue"
          [] c = 35 -> "qingwu" [] c = 53 -> "mai" [] c = 99 -> "weizhi"]

\* a lookup without the default: WEATHER_STATUS.get(code), str() of the result
get_weather_description_noDefault(code) ==
    IF code \in DOMAIN WEATHER_STATUS THEN WEATHER_STATUS[code] ELSE "None"

get_weather_description(code) ==
    IF code \in DOMAIN WEATHER_STATUS THEN WEATHER_STATUS[code] ELSE "weizhi"

\* template.format(v['from'], v['to']) with the template "{}degC~{}degC"
FormatDaily(v) == v["from"] \o "degC~" \o v["to"] \o "degC"

\* the list comprehension of get_daily_entries: it enumerates values[:3]
DailyEntryList(values) ==
    [k \in 1..Len(FirstThree(values)) |->
        IF (k - 1) < Len(values) THEN FormatDaily(FirstThree(values)[k]) ELSE "N/A"]

get_daily_entries(values) ==
    IF \E k \in 1..Len(FirstThree(values)) :
          ~ ({"from", "to"} \subseteq DOMAIN FirstThree(values)[k])
    THEN Raise("KeyError")
    ELSE Ok(DailyEntryList(values))

\* the comprehension that builds daily_precip
daily_precip_entries(values) ==
    [k \in 1..Len(FirstThree(values)) |->
        IF (k - 1) < Len(values) THEN FirstThree(values)[k] \o "%" ELSE "N/A"]

\* zip(temp_values[:3], code_values[:3]) stops at the shorter of the two
ZipLen(temp_values, code_values) ==
    Min(Len(FirstThree(temp_values)), Len(FirstThree(code_values)))

get_hourly_entries(temp_values, code_values) ==
    [k \in 1..ZipLen(temp_values, code_values) |->
        IF (k - 1) < Len(temp_values) /\ (k - 1) < Len(code_values)
        THEN get_weather_description(code_values[k]) \o " " \o temp_values[k] \o "degC"
        ELSE "N/A"]

\* data.get(section, {}).get(field, {}).get('value', [])
ForecastValues(d, section, field) ==
    DictGet(DictGet(DictGet(d, section, EmptyDict), field, EmptyDict), "value", << >>)

WeatherData(daily_temp, daily_precip, hourly_weather, alerts) ==
    [type |-> "WeatherData", daily_temp |-> daily_temp, daily_precip |-> daily_precip,
     hourly_weather |-> hourly_weather, alerts |-> alerts]

parse_weather(data) ==
    IF data.type # "dict" THEN Raise("AttributeError")   \* a str has no .get
    ELSE LET d == data.value
             daily == get_daily_entries(ForecastValues(d, "forecastDaily", "temperature"))
             precip == daily_precip_entries(
                           ForecastValues(d, "forecastDaily", "precipitationProbability"))
             hourly == get_hourly_entries(
                           ForecastValues(d, "forecastHourly", "temperature"),
                           ForecastValues(d, "forecastHourly", "weather"))
         IN  IF daily.exc # "none" THEN daily
             ELSE Ok(WeatherData(Join(" | ", daily.val), Join(" | ", precip),
                                 Join(" | ", hourly), DictGet(d, "alerts", << >>)))

-----------------------------------------------------------------------------
(* The clock: datetime.now(), now.date() and now.strftime('%H:%M:%S') *)

DayMs == 86400000

DateOf(t) == t \div DayMs

Pad2(n) == IF n < 10 THEN "0" \o ToString(n) ELSE ToString(n)

StrfTime(t) ==
    LET s == (t % DayMs) \div 1000
    IN  Pad2(s \div 3600) \o ":" \o Pad2((s % 3600) \div 60) \o ":" \o Pad2(s % 60)

trigger_times == {"09:38:00", "12:00:45", "14:30:30", "17:50:45", "19:40:30"}

-----------------------------------------------------------------------------
(* _split_alert_detail: str.split(U+FF1A, 1), then parts[0].strip() *)

FWColon == "U+FF1A"
Whitespace == {" "}

\* detail_text.split(FWColon, 1): one part without a colon, two parts with one
SplitOnce(chars) ==
    IF \E k \in 1..Len(chars) : chars[k] = FWColon
    THEN LET k == CHOOSE j \in 1..Len(chars) :
                      /\ chars[j] = FWColon
                      /\ \A h \in 1..(j - 1) : chars[h] # FWColon
         IN  <<SubSeq(chars, 1, k - 1), SubSeq(chars, k + 1, Len(chars))>>
    ELSE <<chars>>

RECURSIVE LStrip(_)
LStrip(chars) ==
    IF Len(chars) > 0 /\ chars[1] \in Whitespace THEN LStrip(Tail(chars)) ELSE chars

RECURSIVE RStrip(_)
RStrip(chars) ==
    IF Len(chars) > 0 /\ chars[Len(chars)] \in Whitespace
    THEN RStrip(SubSeq(chars, 1, Len(chars) - 1))
    ELSE chars

Strip(chars) == RStrip(LStrip(chars))

\* returns the title part (a str) or None
_split_alert_detail(detail_text) ==
    IF detail_text.type # "str" THEN NoneVal      \* except Exception: return None
    ELSE LET parts == SplitOnce(detail_text.value)
         IN  IF Len(parts) > 0 THEN PyStr(Strip(parts[1])) ELSE NoneVal

\* truth value of an Optional[str]
Truthy(v) == v.type = "str" /\ Len(v.value) > 0

\* the text of a character sequence
RECURSIVE Text(_)
Text(chars) == IF Len(chars) = 0 THEN "" ELSE chars[1] \o Text(Tail(chars))

-----------------------------------------------------------------------------
(* _download_alert_icon: outcome dl of requests.get and of the chunked read *)

DownloadOutcomes == {"ok", "fail", "fail_partial"}

\* os.path.splitext(icon_url)[1], '.webp' when the URL has no extension
FileExtension(icon_url) == IF icon_url.ext = "" THEN ".webp" ELSE icon_url.ext

\* hash(icon_url): distinct URLs give distinct names
IconFileName(icon_url) ==
    "alert_icon_" \o icon_url.stem \o icon_url.ext \o FileExtension(icon_url)

\* a download that returns the local path whether or not the file was fetched
_download_alert_icon_pathAlways(icon_url, dl, files) ==
    [path |-> PyStr("cache/" \o IconFileName(icon_url)),
     cache |-> IF dl = "fail" THEN files ELSE files \cup {IconFileName(icon_url)}]

\* [path |-> local path or None, cache |-> the cache directory afterwards]
_download_alert_icon(icon_url, dl, files) ==
    CASE dl = "ok" ->
            [path |-> PyStr("cache/" \o IconFileName(icon_url)),
             cache |-> files \cup {IconFileName(icon_url)}]
      [] dl = "fail" ->            \* requests.get or raise_for_status raised
            [path |-> NoneVal, cache |-> files]
      [] dl = "fail_partial" ->    \* iter_content raised after the file was opened
            [path |-> NoneVal, cache |-> files \cup {IconFileName(icon_url)}]

-----------------------------------------------------------------------------
(* _schedule_notifications: the batch *)

weather_notification_duration == 5000
AlertDuration == 5000
AlertStep == 5000
DataDuration == 10000
SecondOffset == 10000
ThirdOffset == 20000
CleanupSlack == 1000

TitleForecast == "tianqi yubao"
TitleAlert == "tianqi yujing"
TitleDailyTemp == "jin san tian wendu"
TitleDailyPrecip == "jin san tian jiangyu gailv"
TitleHourly == "jiexialai san xiaoshi tianqi"

Job(delay, title, content, duration, icon) ==
    [delay |-> delay, title |-> title, content |-> content,
     duration |-> duration, icon |-> icon]

\* getattr(self.weather_data, field, 'N/A')
GetAttr(wd, field) == IF wd.type = "WeatherData" THEN wd[field] ELSE "N/A"

\* self.weather_data and self.weather_data.alerts
HasAlerts(wd) == wd.type = "WeatherData" /\ Len(wd.alerts) > 0

HeaderJob == Job(0, TitleForecast, "", weather_notification_duration, NoneVal)

\* the alert notification, appended when the title part is truthy
AlertJobs(title_part, icon_path, current_delay) ==
    IF Truthy(title_part)
    THEN <<Job(current_delay, TitleAlert, Text(title_part.value), AlertDuration, icon_path)>>
    ELSE << >>

\* a scheduler that appends the alert job and forgets current_delay += 5000
DelayAfterAlert_unchained(title_part, current_delay) == current_delay

\* current_delay after the alert block
DelayAfterAlert(title_part, current_delay) ==
    IF Truthy(title_part) THEN current_delay + AlertStep ELSE current_delay

\* data notifications with the precipitation one put first
DataJobs_swapped(wd, current_delay) ==
    << Job(current_delay, TitleDailyPrecip, GetAttr(wd, "daily_precip"), DataDuration,
           NoneVal),
       Job(current_delay + SecondOffset, TitleDailyTemp, GetAttr(wd, "daily_temp"),
           DataDuration, NoneVal),
       Job(current_delay + ThirdOffset, TitleHourly, GetAttr(wd, "hourly_weather"),
           DataDuration, NoneVal) >>

\* data notifications chained by the header's duration instead of their own
DataJobs_short(wd, current_delay) ==
    << Job(current_delay, TitleDailyTemp, GetAttr(wd, "daily_temp"), DataDuration, NoneVal),
       Job(current_delay + weather_notification_duration, TitleDailyPrecip,
           GetAttr(wd, "daily_precip"), DataDuration, NoneVal),
       Job(current_delay + SecondOffset, TitleHourly, GetAttr(wd, "hourly_weather"),
           DataDuration, NoneVal) >>

DataJobs(wd, current_delay) ==
    << Job(current_delay, TitleDailyTemp, GetAttr(wd, "daily_temp"), DataDuration, NoneVal),
       Job(current_delay + SecondOffset, TitleDailyPrecip, GetAttr(wd, "daily_precip"),
           DataDuration, NoneVal),
       Job(current_delay + ThirdOffset, TitleHourly, GetAttr(wd, "hourly_weather"),
           DataDuration, NoneVal) >>

\* max_delay as line 150 sets it
MaxDelay(current_delay) == current_delay + ThirdOffset

\* a cleanup registered one second after scheduling
CleanupDelay_early(current_delay) == CleanupSlack

\* the delay of the cleanup timer
CleanupDelay(current_delay) == MaxDelay(current_delay) + CleanupSlack

\* a scheduler that takes the most recent alert of the sequence
UsedAlert_last(alerts) == alerts[Len(alerts)]

\* alert = self.weather_data.alerts[0]
UsedAlert(alerts) == alerts[1]

NoBatch == [notifications |-> << >>, cleanup |-> 0, alert |-> FALSE]

\* The batch built from record wd with download outcome dl and cache directory files:
\* [exc, notifications, cleanup (delay), cache (afterwards), downloads (outcomes)]
BuildBatch(wd, dl, files) ==
    LET d0 == weather_notification_duration
        plain == [exc |-> "none", notifications |-> <<HeaderJob>> \o DataJobs(wd, d0),
                  cleanup |-> CleanupDelay(d0), cache |-> files, downloads |-> << >>,
                  alert |-> FALSE]
        failed(dir, n) == [exc |-> "KeyError", notifications |-> << >>, cleanup |-> 0,
                           cache |-> dir, downloads |-> n, alert |-> FALSE]
    IN  IF ~ HasAlerts(wd) THEN plain
        ELSE LET alert == UsedAlert(wd.alerts)
             IN  IF ~ ("images" \in DOMAIN alert /\ "icon" \in DOMAIN alert.images)
                 THEN failed(files, << >>)
                 ELSE LET got == _download_alert_icon(alert.images.icon, dl, files)
                      IN  IF "detail" \notin DOMAIN alert THEN failed(got.cache, <<dl>>)
                          ELSE LET part == _split_alert_detail(alert.detail)
                                   d1 == DelayAfterAlert(part, d0)
                               IN  [exc |-> "none",
                                    notifications |-> <<HeaderJob>>
                                                      \o AlertJobs(part, got.path, d0)
                                                      \o DataJobs(wd, d1),
                                    cleanup |-> CleanupDelay(d1),
                                    cache |-> got.cache, downloads |-> <<dl>>,
                                    alert |-> Truthy(part)]

-----------------------------------------------------------------------------
(* _delete_cached_icons: os.listdir, then os.remove file by file; an error *)
(* ends the loop and is logged, not raised                                  *)

\* the orders os.listdir can return the files in
Listings(files) ==
    {order \in [1..Cardinality(files) -> files] :
        \A a, b \in 1..Cardinality(files) : a # b => order[a] # order[b]}

\* a cleanup whose loop stops one file short of the listing
_delete_cached_icons_short(files, order, fail_at) ==
    IF fail_at = 0
    THEN files \ {order[k] : k \in 1..(Len(order) - 1)}
    ELSE files \ {order[k] : k \in 1..(fail_at - 1)}

\* fail_at = 0: no error; fail_at = k: os.remove raised on the k-th file
_delete_cached_icons(files, order, fail_at) ==
    IF fail_at = 0
    THEN files \ {order[k] : k \in 1..Len(order)}
    ELSE files \ {order[k] : k \in 1..(fail_at - 1)}

-----------------------------------------------------------------------------
(* The inputs of update(): cw_contexts *)

HMS(h, m, s) == (h * 3600 + m * 60 + s) * 1000

\* the times of day at which the host polls update(): midnight, three of the
\* trigger seconds, and one second after the first of them
PollTimes == {HMS(0, 0, 0), HMS(9, 38, 0), HMS(9, 38, 1), HMS(14, 30, 30),
              HMS(19, 40, 30)}

PollInstants == {d * DayMs + t : d \in 0..(MaxDays - 1), t \in PollTimes}

Url1 == [stem |-> "http://w/a", ext |-> ".png"]
Url2 == [stem |-> "http://w/b", ext |-> ""]

\* forecast arrays of n entries; the entries depend on the position and on seed
DailyTempValues(n, seed) ==
    [k \in 1..n |-> [from |-> ToString(seed + k), to |-> ToString(seed + k + 8)]]
PrecipValues(n, seed) == [k \in 1..n |-> ToString(10 * (seed + k))]
HourlyTempValues(n, seed) == [k \in 1..n |-> ToString(seed + 20 + k)]
\* odd positions hold codes of the table, even positions codes outside it
HourlyCodeValues(n) == [k \in 1..n |-> IF k % 2 = 0 THEN 35 + k ELSE k - 1]

Forecast(nt, np, nht, nhc, seed) ==
    [forecastDaily |->
        [temperature |-> [value |-> DailyTempValues(nt, seed)],
         precipitationProbability |-> [value |-> PrecipValues(np, seed)]],
     forecastHourly |->
        [temperature |-> [value |-> HourlyTempValues(nht, seed)],
         weather |-> [value |-> HourlyCodeValues(nhc)]]]

\* d with d[key] = v added
With(d, key, v) == [k \in DOMAIN d \cup {key} |-> IF k = key THEN v ELSE d[k]]

Alert(url, detail) == [images |-> [icon |-> url], detail |-> detail]

AlertLists ==
    { << >>,
      <<Alert(Url1, PyStr(<<"A", FWColon, "b">>))>>,        \* title "A"
      <<Alert(Url1, PyStr(<<"A", "b">>))>>,                 \* no colon
      <<Alert(Url1, PyStr(<<FWColon, "b">>))>>,             \* empty title part
      <<Alert(Url1, NoneVal)>>,                              \* detail is null
      <<[detail |-> PyStr(<<"A", FWColon, "b">>)]>>,         \* no images
      <<[images |-> [icon |-> Url1]]>>,                      \* no detail
      <<Alert(Url1, PyStr(<<" ", "B", " ", FWColon, "c">>)),   \* title "B" once stripped
        Alert(Url2, PyStr(<<"A", FWColon, "b">>))>> }

\* the Weather_Data values the host supplies
PollData ==
    {NoneVal, PyStr(""), PyDict(EmptyDict),
     PyStr("{\"forecastDaily\": {}}"),
     PyDict(Forecast(3, 3, 3, 3, 0)),
     PyDict(Forecast(2, 2, 2, 2, 1)),
     PyDict([forecastDaily |-> [temperature |-> [value |-> <<[from |-> "1"]>>]]])}
    \cup {PyDict(With(Forecast(3, 3, 3, 3, 0), "alerts", al)) : al \in AlertLists}

\* cw_contexts: every payload under the expected API name, one under another
Contexts ==
    {[Weather_API |-> "xiaomi_weather", Weather_Data |-> d] : d \in PollData}
    \cup {[Weather_API |-> "other", Weather_Data |-> PyDict(Forecast(2, 2, 2, 2, 1))]}

\* the download outcomes to tell apart: one when the payload names no icon
OutcomesFor(data) ==
    IF /\ data.type = "dict"
       /\ "alerts" \in DOMAIN data.value
       /\ Len(data.value.alerts) > 0
       /\ "images" \in DOMAIN data.value.alerts[1]
    THEN DownloadOutcomes
    ELSE {"ok"}

\* the payloads the parser is run on alone: every length of every array,
\* an array missing (-1), and the wrongly shaped ones of PollData
ParseData ==
    {PyDict(Forecast(nt, np, nht, nhc, 0)) : nt \in 0..MaxArr, np \in 0..MaxArr,
                                             nht \in 0..MaxArr, nhc \in 0..MaxArr}
    \cup PollData

\* a check that only catches a missing Weather_Data
Falsy_noneOnly(data) == data.type = "None"

\* not weather_data
Falsy(data) ==
    \/ data.type = "None"
    \/ data.type = "str" /\ data.value = ""
    \/ data.type = "dict" /\ DOMAIN data.value = {}

-----------------------------------------------------------------------------
(* The plugin *)

Init ==
    /\ now \in {t \in PollInstants : DateOf(t) = 0}
    /\ notified_times = {}
    /\ current_date = DateOf(now)
    /\ weather_data = NoneVal
    /\ cache = {}
    /\ timers = << >>
    /\ input = NoneVal
    /\ sent = << >>
    /\ batch = NoBatch
    /\ raised = "none"
    /\ calls = 0
    /\ downloads = << >>
    /\ lastOp = "init"
    /\ polled = "none"
    /\ cleared = {}

\* the timers one batch registers, due at now + delay, the cleanup last
Registered(b, t) ==
    [k \in 1..Len(b.notifications) |->
        [kind |-> "notify", due |-> t + b.notifications[k].delay,
         job |-> b.notifications[k]]]
    \o <<[kind |-> "cleanup", due |-> t + b.cleanup]>>

\* an update() without the date check
AfterDateCheck_noReset(date) == notified_times

\* notified_times after the date check of update()
AfterDateCheck(date) == IF date # current_date THEN {} ELSE notified_times

\* the kind of context update() is called with
ContextKind(api, data) ==
    CASE api # "xiaomi_weather" -> "other_api"
      [] data.type = "None" -> "empty"
      [] data.type = "str" /\ Len(data.value) = 0 -> "empty"
      [] data.type = "dict" /\ Cardinality(DOMAIN data.value) = 0 -> "empty"
      [] OTHER -> "data"

\* current_time in trigger_times and current_time not in self.notified_times
Triggered(current_time, notified) ==
    current_time \in trigger_times /\ current_time \notin notified

\* an update() that marks the trigger time before the batch is built
ScheduleAndMark_markFirst(wd, notified, current_time, dl) ==
    \E b \in {BuildBatch(wd, dl, cache)} :
        /\ lastOp' = "schedule"
        /\ calls' = Min(MaxCalls, calls + 1)
        /\ cache' = b.cache
        /\ downloads' = b.downloads
        /\ raised' = b.exc
        /\ notified_times' = notified \cup {current_time}
        /\ IF b.exc # "none"
           THEN UNCHANGED <<timers, sent, batch>>
           ELSE /\ timers' = timers \o Registered(b, now)
                /\ sent' = << >>
                /\ batch' = [notifications |-> b.notifications,
                             cleanup |-> b.cleanup, alert |-> b.alert]

\* lines 114-116: _schedule_notifications(), then notified_times.add(current_time);
\* an exception raised while the batch is built leaves both undone
ScheduleAndMark(wd, notified, current_time, dl) ==
    \E b \in {BuildBatch(wd, dl, cache)} :
        /\ lastOp' = "schedule"
        /\ calls' = Min(MaxCalls, calls + 1)
        /\ cache' = b.cache
        /\ downloads' = b.downloads
        /\ raised' = b.exc
        /\ IF b.exc # "none"
           THEN /\ notified_times' = notified
                /\ UNCHANGED <<timers, sent, batch>>
           ELSE /\ timers' = timers \o Registered(b, now)
                /\ notified_times' = notified \cup {current_time}
                /\ sent' = << >>
                /\ batch' = [notifications |-> b.notifications,
                             cleanup |-> b.cleanup, alert |-> b.alert]

\* update(cw_contexts) with Weather_API = api and Weather_Data = data; dl is the
\* outcome of the icon download, should one be attempted
Update(api, data, dl) ==
    \E date \in {DateOf(now)}, current_time \in {StrfTime(now)} :
    \E notified \in {AfterDateCheck(date)} :
        /\ now \in PollInstants
        /\ UNCHANGED <<input, now>>
        /\ polled' = ContextKind(api, data)
        /\ cleared' = IF date # current_date THEN notified_times ELSE {}
        /\ current_date' = date
        /\ IF api # "xiaomi_weather" \/ Falsy(data)
           THEN /\ notified_times' = notified
                /\ lastOp' = "update"
                /\ raised' = "none"
                /\ downloads' = << >>
                /\ UNCHANGED <<weather_data, cache, timers, sent, batch, calls>>
           ELSE \E parsed \in {parse_weather(data)} :
                IF parsed.exc # "none"
                THEN /\ notified_times' = notified
                     /\ lastOp' = "update"
                     /\ raised' = parsed.exc
                     /\ downloads' = << >>
                     /\ UNCHANGED <<weather_data, cache, timers, sent, batch, calls>>
                ELSE /\ weather_data' = parsed.val
                     /\ IF Triggered(current_time, notified)
                        THEN ScheduleAndMark(parsed.val, notified, current_time, dl)
                        ELSE /\ notified_times' = notified
                             /\ lastOp' = "update"
                             /\ raised' = "none"
                             /\ downloads' = << >>
                             /\ UNCHANGED <<cache, timers, sent, batch, calls>>

Poll == \E ctx \in Contexts : \E dl \in OutcomesFor(ctx.Weather_Data) :
            Update(ctx.Weather_API, ctx.Weather_Data, dl)

\* the timer the event loop runs next: the earliest due, the first registered
\* among equals
NextTimer ==
    CHOOSE k \in 1..Len(timers) :
        /\ \A j \in 1..Len(timers) : timers[k].due <= timers[j].due
        /\ \A j \in 1..(k - 1) : timers[j].due > timers[k].due

Due == Len(timers) > 0 /\ timers[NextTimer].due <= now

Remove(seq, k) == SubSeq(seq, 1, k - 1) \o SubSeq(seq, k + 1, Len(seq))

\* what _send_notification hands to method.send_notification
_send_notification(title, content, duration, icon) ==
    [state |-> 4, title |-> title, subtitle |-> "", content |-> content,
     icon |-> icon, duration |-> duration]

\* a notification that reads its content from the record when it fires
Notify_lateBound ==
    /\ Due
    /\ timers[NextTimer].kind = "notify"
    /\ LET j == timers[NextTimer].job
           content == CASE j.title = TitleDailyTemp -> GetAttr(weather_data, "daily_temp")
                        [] j.title = TitleDailyPrecip -> GetAttr(weather_data, "daily_precip")
                        [] j.title = TitleHourly -> GetAttr(weather_data, "hourly_weather")
                        [] OTHER -> j.content
       IN  sent' = Append(sent, _send_notification(j.title, content, j.duration, j.icon))
    /\ timers' = Remove(timers, NextTimer)
    /\ lastOp' = "notify"
    /\ raised' = "none"
    /\ downloads' = << >>
    /\ polled' = "none"
    /\ cleared' = {}
    /\ UNCHANGED <<now, notified_times, current_date, weather_data, cache, input,
                   batch, calls>>

\* a notification timer fires: partial(self._send_notification, ...)
Notify ==
    /\ Due
    /\ timers[NextTimer].kind = "notify"
    /\ LET j == timers[NextTimer].job
       IN  sent' = Append(sent, _send_notification(j.title, j.content, j.duration, j.icon))
    /\ timers' = Remove(timers, NextTimer)
    /\ lastOp' = "notify"
    /\ raised' = "none"
    /\ downloads' = << >>
    /\ polled' = "none"
    /\ cleared' = {}
    /\ UNCHANGED <<now, notified_times, current_date, weather_data, cache, input,
                   batch, calls>>

\* the cleanup timer fires: self._delete_cached_icons
Cleanup ==
    /\ Due
    /\ timers[NextTimer].kind = "cleanup"
    /\ \E order \in Listings(cache), fail_at \in 0..Cardinality(cache) :
          /\ cache' = _delete_cached_icons(cache, order, fail_at)
          /\ lastOp' = IF fail_at = 0 THEN "cleanup" ELSE "cleanup_error"
    /\ timers' = Remove(timers, NextTimer)
    /\ raised' = "none"
    /\ downloads' = << >>
    /\ polled' = "none"
    /\ cleared' = {}
    /\ UNCHANGED <<now, notified_times, current_date, weather_data, input, sent,
                   batch, calls>>

\* time passes to the next poll instant or the next timer, whichever is first;
\* once the last timer of a cycle has fired the cycle is over
NextInstants == {t \in PollInstants : t > now} \cup {timers[k].due : k \in 1..Len(timers)}

Advance ==
    /\ ~ Due
    /\ NextInstants # {}
    /\ now' = CHOOSE t \in NextInstants : \A u \in NextInstants : t <= u
    /\ lastOp' = "advance"
    /\ calls' = 0
    /\ IF Len(timers) = 0
       THEN sent' = << >> /\ batch' = NoBatch
       ELSE UNCHANGED <<sent, batch>>
    /\ raised' = "none"
    /\ downloads' = << >>
    /\ polled' = "none"
    /\ cleared' = {}
    /\ UNCHANGED <<notified_times, current_date, weather_data, cache, timers, input>>

Next == Poll \/ Notify \/ Cleanup \/ Advance

Spec == Init /\ [][Next]_vars

-----------------------------------------------------------------------------
(* The parser alone: parse_weather applied to each payload of ParseData *)

ParseInit ==
    /\ input \in ParseData
    /\ now = 0
    /\ notified_times = {}
    /\ current_date = 0
    /\ weather_data = NoneVal
    /\ cache = {}
    /\ timers = << >>
    /\ sent = << >>
    /\ batch = NoBatch
    /\ raised = "none"
    /\ calls = 0
    /\ downloads = << >>
    /\ lastOp = "init"
    /\ polled = "none"
    /\ cleared = {}

Parse ==
    /\ lastOp = "init"
    /\ ~ Falsy(input)
    /\ LET parsed == parse_weather(input)
       IN  /\ raised' = parsed.exc
           /\ weather_data' = parsed.val
    /\ lastOp' = "parse"
    /\ UNCHANGED <<now, notified_times, current_date, cache, timers, input, sent,
                   batch, calls, downloads, polled, cleared>>

ParseNext == Parse

ParseSpec == ParseInit /\ [][ParseNext]_vars

-----------------------------------------------------------------------------
(* Properties of the scheduler *)

Delays(jobs) == [k \in 1..Len(jobs) |-> jobs[k].delay]
Titles(jobs) == [k \in 1..Len(jobs) |-> jobs[k].title]

\* a batch was registered and its cycle is in progress
InCycle == Len(batch.notifications) > 0

\* the first alert of record wd has a str detail without the fullwidth colon
FirstDetailLacksColon(wd) ==
    /\ HasAlerts(wd)
    /\ "detail" \in DOMAIN wd.alerts[1]
    /\ wd.alerts[1].detail.type = "str"
    /\ \A k \in 1..Len(wd.alerts[1].detail.value) : wd.alerts[1].detail.value[k] # FWColon

\* C1: for every date and trigger time, _schedule_notifications is invoked at
\* most once for that (date, trigger time) pair, however many polls fall in
\* the trigger second.
C1_ScheduledAtMostOncePerTrigger == calls <= 1

\* C2: in every batch the jobs, in list order, have strictly increasing delays
\* and do not overlap: each delay is at least the previous delay plus the
\* previous duration.
C2_DelaysIncreasingNonOverlapping ==
    \A k \in 1..(Len(batch.notifications) - 1) :
        /\ batch.notifications[k + 1].delay > batch.notifications[k].delay
        /\ batch.notifications[k + 1].delay >=
               batch.notifications[k].delay + batch.notifications[k].duration

\* a batch with an alert job has been registered
C2_Witness ==
    /\ lastOp = "schedule"
    /\ batch.alert
    /\ Len(batch.notifications) = 5
    /\ batch.notifications[2].title = TitleAlert

\* C3: the cleanup is scheduled after the last notification's display duration
\* has elapsed: its delay is at least the last job's delay plus its duration.
C3_CleanupAfterLastDuration ==
    InCycle =>
        batch.cleanup >= batch.notifications[Len(batch.notifications)].delay
                         + batch.notifications[Len(batch.notifications)].duration

\* C4 as stated: once the cleanup callback of a cycle has run, the cache
\* directory is empty.
C4_CacheEmptyAfterCleanup ==
    lastOp \in {"cleanup", "cleanup_error"} => cache = {}

\* C4 amended: once the cleanup callback has run without os.listdir or os.remove
\* failing, the cache directory is empty; a failure is swallowed (nothing is
\* raised) and leaves the file it failed on.
C4_CacheEmptyAfterCleanupWithoutError ==
    /\ lastOp = "cleanup" => cache = {}
    /\ lastOp = "cleanup_error" => raised = "none" /\ cache # {}

\* the cleanup of a cycle whose alert icon was downloaded has run
C4_Witness ==
    /\ lastOp = "cleanup"
    /\ batch.alert
    /\ batch.notifications[2].icon.type = "str"
    /\ cache = {}

\* C5: when the first alert's detail holds no colon, the batch has no alert
\* notification: it is the header followed by the three data notifications.
C5_NoColonNoAlertJob ==
    (lastOp = "schedule" /\ raised = "none" /\ FirstDetailLacksColon(weather_data)) =>
        /\ ~ batch.alert
        /\ Titles(batch.notifications) =
               <<TitleForecast, TitleDailyTemp, TitleDailyPrecip, TitleHourly>>

\* C6: when the record is absent or has no alerts, no icon download is
\* attempted and the batch is the header at delay 0 followed by the three data
\* notifications at delays 5000, 15000 and 25000.
C6_NoAlertsPlainBatch ==
    /\ (lastOp = "schedule" /\ ~ HasAlerts(weather_data)) =>
          /\ raised = "none"
          /\ downloads = << >>
          /\ Titles(batch.notifications) =
                 <<TitleForecast, TitleDailyTemp, TitleDailyPrecip, TitleHourly>>
          /\ Delays(batch.notifications) = <<0, 5000, 15000, 25000>>
    /\ \A dl \in DownloadOutcomes :           \* the absent record
          /\ BuildBatch(NoneVal, dl, cache).downloads = << >>
          /\ Titles(BuildBatch(NoneVal, dl, cache).notifications) =
                 <<TitleForecast, TitleDailyTemp, TitleDailyPrecip, TitleHourly>>
          /\ Delays(BuildBatch(NoneVal, dl, cache).notifications) =
                 <<0, 5000, 15000, 25000>>

\* a record with an empty alerts sequence has been scheduled
C6_Witness ==
    /\ lastOp = "schedule"
    /\ weather_data.type = "WeatherData"
    /\ weather_data.alerts = << >>
    /\ Len(batch.notifications) = 4

\* entries padded with "N/A" to three slots
PadToThree(entries) ==
    [k \in 1..3 |-> IF k <= Len(entries) THEN entries[k] ELSE "N/A"]

\* C7: for every payload whose forecast arrays hold fewer than three entries,
\* parse_weather produces three slots per field, each slot beyond the
\* available data being "N/A".
C7_ShortArraysPaddedToThree ==
    (lastOp = "parse" /\ raised = "none") =>
        LET d == input.value
            daily == ForecastValues(d, "forecastDaily", "temperature")
            precip == ForecastValues(d, "forecastDaily", "precipitationProbability")
            htemp == ForecastValues(d, "forecastHourly", "temperature")
            hcode == ForecastValues(d, "forecastHourly", "weather")
        IN  /\ weather_data.daily_temp =
                   Join(" | ", PadToThree(DailyEntryList(daily)))
            /\ weather_data.daily_precip =
                   Join(" | ", PadToThree(daily_precip_entries(precip)))
            /\ weather_data.hourly_weather =
                   Join(" | ", PadToThree(get_hourly_entries(htemp, hcode)))

\* C8: no exception escapes update(), whatever the input.
C8_NoExceptionEscapesUpdate ==
    lastOp \in {"update", "schedule"} => raised = "none"

\* the jobs of the batch that are still to fire
PendingJobs ==
    LET pending == SelectSeq(timers, LAMBDA t : t.kind = "notify")
    IN  [k \in 1..Len(pending) |-> pending[k].job]

Sent(job) == _send_notification(job.title, job.content, job.duration, job.icon)

\* C9: once a batch is scheduled every job of it fires with the title, content,
\* duration and icon captured at scheduling time; a later update() that
\* replaces the record neither cancels a job nor changes what it sends.
C9_JobsFireWithCapturedContent ==
    InCycle =>
        /\ Len(sent) <= Len(batch.notifications)
        /\ \A k \in 1..Len(sent) : sent[k] = Sent(batch.notifications[k])
        /\ PendingJobs = SubSeq(batch.notifications, Len(sent) + 1,
                                Len(batch.notifications))

\* a data notification was sent whose content is not the current record's
C9_Witness ==
    /\ lastOp = "notify"
    /\ Len(sent) >= 2
    /\ sent[Len(sent)].title = TitleDailyTemp
    /\ weather_data.type = "WeatherData"
    /\ sent[Len(sent)].content # weather_data.daily_temp

\* C10: when the icon download fails with a network error the cycle proceeds
\* as it does when the download succeeds: the download is attempted once, the
\* failure raises nothing, the alert notification is scheduled with a null
\* icon, and the data notifications and the cleanup have the delays they have
\* when the download succeeds.
C10_DownloadFailureDegradesToNoIcon ==
    (lastOp = "schedule" /\ Len(downloads) > 0 /\ downloads[1] # "ok") =>
        LET good == BuildBatch(weather_data, "ok", {})
        IN  /\ Len(downloads) = 1
            /\ raised = good.exc
            /\ raised = "none" =>
                  /\ Titles(batch.notifications) = Titles(good.notifications)
                  /\ Delays(batch.notifications) = Delays(good.notifications)
                  /\ batch.cleanup = good.cleanup
                  /\ batch.alert = good.alert
                  /\ \A k \in 1..Len(batch.notifications) :
                         batch.notifications[k].icon = NoneVal
                  /\ Truthy(_split_alert_detail(weather_data.alerts[1].detail)) =>
                         /\ batch.alert
                         /\ batch.notifications[2].title = TitleAlert

\* a batch with an alert job was scheduled after a failed download
C10_Witness ==
    /\ lastOp = "schedule"
    /\ downloads = <<"fail">>
    /\ batch.alert
    /\ batch.notifications[2].title = TitleAlert
    /\ batch.notifications[2].icon = NoneVal
    /\ Len(batch.notifications) = 5

\* the last step was an update()
Polled == lastOp \in {"update", "schedule"}

\* C11: on the first update() whose date differs from the stored date the
\* already-notified set is emptied before the trigger check, so a trigger time
\* that fired on the previous date schedules a new cycle when polled with
\* valid data at that time on the new date.
C11_DateChangeResetsNotified ==
    /\ Polled => current_date = DateOf(now)
    /\ (Polled /\ cleared # {}) => notified_times \subseteq {StrfTime(now)}
    /\ (Polled /\ polled = "data" /\ raised = "none" /\ StrfTime(now) \in cleared) =>
          /\ lastOp = "schedule"
          /\ StrfTime(now) \in notified_times
          /\ InCycle
          /\ Len(timers) > 0

\* a trigger time notified on the previous date has scheduled a cycle again
C11_Witness ==
    /\ lastOp = "schedule"
    /\ raised = "none"
    /\ current_date = 1
    /\ StrfTime(now) \in cleared
    /\ notified_times = {StrfTime(now)}
    /\ Len(timers) > 0

\* the hourly codes and temperatures of the payload under parse
InputHourlyCodes == ForecastValues(input.value, "forecastHourly", "weather")
InputHourlyTemps == ForecastValues(input.value, "forecastHourly", "temperature")

\* the hourly entry the table gives for position k, "weizhi" for a code outside it
HourlyEntryWanted(k) ==
    (IF InputHourlyCodes[k] \in DOMAIN WEATHER_STATUS
     THEN WEATHER_STATUS[InputHourlyCodes[k]]
     ELSE "weizhi") \o " " \o InputHourlyTemps[k] \o "degC"

\* the daily temperature entries of the payload all have 'from' and 'to'
InputDailyWellFormed ==
    \A k \in 1..Len(FirstThree(ForecastValues(input.value, "forecastDaily", "temperature"))) :
        {"from", "to"} \subseteq
            DOMAIN ForecastValues(input.value, "forecastDaily", "temperature")[k]

\* C12: for every hourly weather code that is no key of the weather-code table
\* the hourly entry parse_weather produces carries the description of the
\* unknown code ("weizhi"); an unknown code never makes the parser fail.
C12_UnknownCodeRendersUnknown ==
    (lastOp = "parse" /\ input.type = "dict") =>
        /\ InputDailyWellFormed => raised = "none"
        /\ raised = "none" =>
              weather_data.hourly_weather =
                  Join(" | ", [k \in 1..Min(3, Min(Len(InputHourlyTemps),
                                                   Len(InputHourlyCodes)))
                               |-> HourlyEntryWanted(k)])

\* a payload with a code outside the table among its first three was parsed
C12_Witness ==
    /\ lastOp = "parse"
    /\ raised = "none"
    /\ input.type = "dict"
    /\ Len(InputHourlyTemps) >= 2
    /\ Len(InputHourlyCodes) >= 2
    /\ InputHourlyCodes[2] \notin DOMAIN WEATHER_STATUS
    /\ weather_data.hourly_weather # ""

\* the alert notifications of a list of jobs
AlertJobsOf(jobs) == SelectSeq(jobs, LAMBDA j : j.title = TitleAlert)

\* C13: a cycle uses only the first alert of the record: at most one alert
\* notification is scheduled and at most one icon is downloaded, both taken
\* from alerts[0].
C13_OnlyFirstAlertUsed ==
    lastOp = "schedule" =>
        /\ Len(downloads) <= 1
        /\ Len(AlertJobsOf(batch.notifications)) <= 1
        /\ (raised = "none" /\ HasAlerts(weather_data)) =>
              LET first == weather_data.alerts[1]
                  file == IconFileName(first.images.icon)
              IN  /\ Len(downloads) = 1
                  /\ downloads = <<"ok">> => file \in cache
                  /\ \A k \in 2..Len(weather_data.alerts) :
                        IconFileName(weather_data.alerts[k].images.icon) # file =>
                            IconFileName(weather_data.alerts[k].images.icon) \notin cache
                  /\ \A k \in 1..Len(AlertJobsOf(batch.notifications)) :
                        /\ AlertJobsOf(batch.notifications)[k].content =
                               Text(_split_alert_detail(first.detail).value)
                        /\ AlertJobsOf(batch.notifications)[k].icon \in
                               {NoneVal, PyStr("cache/" \o file)}

\* a record with two alerts was scheduled with a downloaded icon
C13_Witness ==
    /\ lastOp = "schedule"
    /\ raised = "none"
    /\ weather_data.type = "WeatherData"
    /\ Len(weather_data.alerts) = 2
    /\ downloads = <<"ok">>
    /\ Len(AlertJobsOf(batch.notifications)) = 1

\* the order in which a cycle's notifications are to arrive
CycleTitles ==
    IF batch.alert
    THEN <<TitleForecast, TitleAlert, TitleDailyTemp, TitleDailyPrecip, TitleHourly>>
    ELSE <<TitleForecast, TitleDailyTemp, TitleDailyPrecip, TitleHourly>>

CleanupPending == \E k \in 1..Len(timers) : timers[k].kind = "cleanup"

\* C14: every scheduled cycle delivers its jobs once each and in a fixed
\* order: the header first at delay 0, then the alert notification if there is
\* one, then daily temperature, daily precipitation and hourly weather; the
\* cleanup runs only after all of them have fired; a cycle sends four
\* notifications without an alert job and five with one.
C14_JobsOnceInOrderThenCleanup ==
    InCycle =>
        /\ Titles(batch.notifications) = CycleTitles
        /\ batch.notifications[1].delay = 0
        /\ Len(sent) <= Len(CycleTitles)
        /\ Titles(sent) = SubSeq(CycleTitles, 1, Len(sent))
        /\ Len(sent) + Len(PendingJobs) = (IF batch.alert THEN 5 ELSE 4)
        /\ Cardinality({k \in 1..Len(timers) : timers[k].kind = "cleanup"}) <= 1
        /\ ~ CleanupPending =>
              /\ Len(timers) = 0
              /\ Len(sent) = (IF batch.alert THEN 5 ELSE 4)

\* the cleanup of a cycle with an alert job has run after its five notifications
C14_Witness ==
    /\ lastOp = "cleanup"
    /\ batch.alert
    /\ Len(sent) = 5
    /\ Titles(sent) = <<TitleForecast, TitleAlert, TitleDailyTemp, TitleDailyPrecip,
                        TitleHourly>>

\* an update() that returned at line 103 or 105
SkippedPoll == Polled /\ polled \in {"other_api", "empty"}

\* C15: an update() whose Weather_API is not "xiaomi_weather", or whose
\* Weather_Data is missing or empty, registers no job, downloads nothing and
\* leaves the weather record and the notified set as they were (the set emptied
\* if the date changed), at a trigger second too; the second is not marked, so
\* a poll with good data in that same second still schedules.
C15_SkippedPollChangesNothing ==
    [][ /\ polled' \in {"other_api", "empty"} =>
              /\ lastOp' = "update"
              /\ raised' = "none"
              /\ downloads' = << >>
              /\ timers' = timers
              /\ weather_data' = weather_data
              /\ cache' = cache
              /\ sent' = sent
              /\ batch' = batch
              /\ calls' = calls
              /\ notified_times' =
                    (IF DateOf(now) # current_date THEN {} ELSE notified_times)
              /\ current_date' = DateOf(now)
        /\ ( /\ SkippedPoll
             /\ Triggered(StrfTime(now), notified_times)
             /\ polled' = "data"
             /\ raised' = "none" ) =>
              /\ lastOp' = "schedule"
              /\ StrfTime(now) \in notified_times'
              /\ Len(timers') > Len(timers)
      ]_vars

\* a poll without data at a trigger second that is still to be handled
C15_Witness ==
    /\ SkippedPoll
    /\ polled = "empty"
    /\ lastOp = "update"
    /\ Triggered(StrfTime(now), notified_times)
    /\ timers = << >>

\* C16: scheduling is all-or-nothing for the notified set: when building the
\* batch raises (the first alert lacks images.icon or detail), no notification
\* timer and no cleanup timer is registered and the trigger time is not added
\* to the notified set; a time enters the notified set only in a step that
\* registers the timers of the complete batch and its cleanup.
C16_ScheduleAllOrNothing ==
    [][ /\ (lastOp' = "schedule" /\ raised' # "none") =>
              /\ timers' = timers
              /\ sent' = sent
              /\ batch' = batch
              /\ notified_times' = AfterDateCheck(DateOf(now))
              /\ StrfTime(now) \notin notified_times'
        /\ \A t \in notified_times' \ notified_times :
              /\ t = StrfTime(now)
              /\ t \in trigger_times
              /\ lastOp' = "schedule"
              /\ raised' = "none"
              /\ Len(batch'.notifications) \in {4, 5}
              /\ timers' = timers \o Registered(batch', now)
              /\ Len(timers') = Len(timers) + Len(batch'.notifications) + 1
              /\ timers'[Len(timers')].kind = "cleanup"
              /\ \A k \in 1..Len(batch'.notifications) :
                    /\ timers'[Len(timers) + k].kind = "notify"
                    /\ timers'[Len(timers) + k].job = batch'.notifications[k]
      ]_vars

\* a batch that failed on the first alert at a trigger second: nothing is
\* registered and the second is still to be handled
C16_Witness ==
    /\ lastOp = "schedule"
    /\ raised = "KeyError"
    /\ Triggered(StrfTime(now), notified_times)
    /\ timers = << >>
    /\ ~ InCycle

\* the alert job of the running cycle, when it shows a downloaded icon
IconJobs ==
    SelectSeq(batch.notifications, LAMBDA j : j.title = TitleAlert /\ j.icon.type = "str")

\* the instant the running cycle was scheduled at, known while its cleanup is pending
CycleStart ==
    LET k == CHOOSE k \in 1..Len(timers) : timers[k].kind = "cleanup"
    IN  timers[k].due - batch.cleanup

\* C17: in a cycle whose alert job shows a downloaded icon, the icon file is in
\* the cache directory from scheduling until the alert notification has fired
\* and its duration is over: the cleanup is due no earlier than the alert's
\* delay plus its duration, the file is there as long as the cleanup is pending,
\* and the cleanup has run only at or after the end of the alert's display.
C17_IconKeptUntilAlertShown ==
    (InCycle /\ Len(IconJobs) > 0) =>
        LET job == IconJobs[1]
        IN  /\ batch.cleanup >= job.delay + job.duration
            /\ CleanupPending =>
                  /\ \E f \in cache : job.icon = PyStr("cache/" \o f)
                  /\ now <= CycleStart + batch.cleanup
                  /\ \A k \in 1..Len(timers) :
                        (timers[k].kind = "notify" /\ timers[k].job = job) =>
                            timers[k].due = CycleStart + job.delay
            /\ ~ CleanupPending =>
                  /\ \E k \in 1..Len(sent) : sent[k] = Sent(job)
                  /\ Len(PendingJobs) = 0
            /\ (CleanupPending /\ now < CycleStart + job.delay + job.duration) =>
                  \E f \in cache : job.icon = PyStr("cache/" \o f)

\* the alert notification with its downloaded icon has been sent and its
\* display time is over, the file still cached and the cleanup still to come
C17_Witness ==
    /\ InCycle
    /\ Len(IconJobs) > 0
    /\ CleanupPending
    /\ \E k \in 1..Len(sent) : sent[k] = Sent(IconJobs[1])
    /\ now >= CycleStart + IconJobs[1].delay + IconJobs[1].duration
    /\ \E f \in cache : IconJobs[1].icon = PyStr("cache/" \o f)

====
